---- MODULE Spec2Model ----
(***************************************************************************)
(* Model of deploy() in python/biomedicus/deployment/deploy_biomedicus.py: *)
(* the launch loop, the SIGINT handler closure, the sequential readiness   *)
(* probing loop and the final Event wait.                                  *)
(*                                                                         *)
(* Execution contexts.  The Python-level signal handler runs in the main   *)
(* thread between two of its steps, also while the main thread is blocked  *)
(* (future.result, listener.join, e.wait), and it can be interrupted by a  *)
(* further SIGINT.  `stack` holds the handler invocations in progress; the *)
(* topmost one runs, and the main flow runs only when the stack is empty.  *)
(* The listener threads, the child processes and gRPC's connectivity       *)
(* callback run concurrently with all of that.                             *)
(*                                                                         *)
(* Library behaviour the code relies on: future.cancel() cancels a future  *)
(* that has not matured, and future.result() then raises                   *)
(* grpc.FutureCancelledError; Popen.send_signal does nothing for a process *)
(* whose exit status was collected; a SIGINT that arrives before           *)
(* signal.signal has run raises KeyboardInterrupt.                         *)
(***************************************************************************)
EXTENDS Naturals, Sequences, FiniteSets

\* ------------------------------------------------------------- bounds
\* Number of (call, port) pairs in `calls`.
NumServices == 3
\* Number of SIGINTs delivered to the supervisor in one run.
MaxInterrupts == 1

\* ---------------------------------------------------- program constants
\* listener.join(timeout=5)
JoinTimeout == 5

Svc == 1..NumServices

VARIABLES
    pc,                \* position of the main flow of deploy()
    idx,               \* position of the running for loop (1-based)
    child,             \* child[i]: state of the i-th child process
    processes,         \* the list `processes`
    process_listeners, \* the list `process_listeners`
    installed,         \* signal.signal(SIGINT, handler) has run
    shutting_down,     \* shutting_down[0]
    future,            \* service whose future the variable `future` holds, 0 = None
    futState,          \* futState[i]: state of the ready-future of service i
    eSet,              \* the Event e is set
    stack,             \* handler invocations in progress, innermost last
    termReq,           \* termReq[i]: calls of p.send_signal on child i
    sigSent,           \* sigSent[i]: SIGINTs the supervisor delivered to child i
    probeCount,        \* probeCount[i]: ready-futures created for service i
    probeResult,       \* probeResult[i]: how future.result ended for service i
    probeLog,          \* the services in the order their future.result ended
    intCount,          \* SIGINTs delivered so far
    intAt,             \* position of the main flow at the latest SIGINT
    cascades,          \* handler invocations started
    failedPrinted,     \* 'Failed to launch' lines printed
    raisedWhy          \* exception that ended deploy(), "none" if none

vars == <<pc, idx, child, processes, process_listeners, installed, shutting_down,
          future, futState, eSet, stack, termReq, sigSent, probeCount,
          probeResult, probeLog, intCount, intAt, cascades, failedPrinted, raisedWhy>>

launchVars == <<processes, process_listeners, installed>>
probeVars == <<future, futState, probeCount, probeResult, probeLog, failedPrinted>>
sigVars == <<termReq, sigSent>>
intVars == <<intCount, intAt>>

Ended == pc \in {"returned", "raised"}

\* Mutant of ExitStatus: a run that was shut down exits non-zero.
ExitStatusByFlag == IF pc = "raised" \/ shutting_down THEN 1 ELSE 0

\* deploy() has no exit call: the interpreter exits 0 when it returns and 1
\* when an exception leaves it.
ExitStatus == IF pc = "raised" THEN 1 ELSE 0

Init ==
    /\ pc = "spawn"
    /\ idx = 1
    /\ child = [i \in Svc |-> "none"]
    /\ processes = <<>>
    /\ process_listeners = <<>>
    /\ installed = FALSE
    /\ shutting_down = FALSE
    /\ future = 0
    /\ futState = [i \in Svc |-> "none"]
    /\ eSet = FALSE
    /\ stack = <<>>
    /\ termReq = [i \in Svc |-> 0]
    /\ sigSent = [i \in Svc |-> 0]
    /\ probeCount = [i \in Svc |-> 0]
    /\ probeResult = [i \in Svc |-> "none"]
    /\ probeLog = <<>>
    /\ intCount = 0
    /\ intAt = "none"
    /\ cascades = 0
    /\ failedPrinted = 0
    /\ raisedWhy = "none"

\* ------------------------------------------------------------ launch phase
\* Mutant of Spawn: the handle is not appended to `processes` (line 123 lost).
SpawnUntracked ==
    /\ pc = "spawn" /\ stack = <<>> /\ idx <= NumServices
    /\ child' = [child EXCEPT ![idx] = "running"]
    /\ process_listeners' = Append(process_listeners, idx)
    /\ idx' = idx + 1
    /\ UNCHANGED <<pc, processes, installed, shutting_down, eSet, stack, cascades, raisedWhy>>
    /\ UNCHANGED <<probeVars, sigVars, intVars>>

\* Lines 118-123: Popen succeeds, the listener thread is started, both lists grow.
Spawn ==
    /\ pc = "spawn" /\ stack = <<>> /\ idx <= NumServices
    /\ child' = [child EXCEPT ![idx] = "running"]
    /\ process_listeners' = Append(process_listeners, idx)
    /\ processes' = Append(processes, idx)
    /\ idx' = idx + 1
    /\ UNCHANGED <<pc, installed, shutting_down, eSet, stack, cascades, raisedWhy>>
    /\ UNCHANGED <<probeVars, sigVars, intVars>>

\* Line 119: Popen raises (executable not found); nothing in deploy() catches it.
SpawnFail ==
    /\ pc = "spawn" /\ stack = <<>> /\ idx <= NumServices
    /\ pc' = "raised"
    /\ raisedWhy' = "SpawnFailure"
    /\ UNCHANGED <<idx, child, shutting_down, eSet, stack, cascades>>
    /\ UNCHANGED <<launchVars, probeVars, sigVars, intVars>>

\* Lines 125-140: the Event, the flag, `future = None`, and the handler is installed.
Install ==
    /\ pc = "spawn" /\ stack = <<>> /\ idx > NumServices
    /\ installed' = TRUE
    /\ shutting_down' = FALSE
    /\ future' = 0
    /\ eSet' = FALSE
    /\ pc' = "check"
    /\ idx' = 1
    /\ UNCHANGED <<child, processes, process_listeners, stack, cascades, raisedWhy>>
    /\ UNCHANGED <<futState, probeCount, probeResult, probeLog, failedPrinted>>
    /\ UNCHANGED <<sigVars, intVars>>

\* ---------------------------------------------------------- probing loop
\* Mutant of ProbeGuard: the loop probes whatever the flag says.
ProbeGuardAlways == TRUE

\* Line 143: the test that lets an iteration probe.
ProbeGuard == ~shutting_down

\* Lines 142-143: next iteration of `for call, port in calls`; the loop ends
\* after the last pair and the main flow goes on to e.wait() (lines 152-153).
Check ==
    /\ pc = "check" /\ stack = <<>>
    /\ IF idx > NumServices
         THEN pc' = "wait" /\ idx' = idx
         ELSE IF ProbeGuard
                THEN pc' = "create" /\ idx' = idx
                ELSE pc' = "check" /\ idx' = idx + 1
    /\ UNCHANGED <<child, shutting_down, eSet, stack, cascades, raisedWhy>>
    /\ UNCHANGED <<launchVars, probeVars, sigVars, intVars>>

\* Mutant of Create: the ready-futures of all remaining services are created
\* at once and waited on one after the other.
CreateAllRemaining ==
    /\ pc = "create" /\ stack = <<>>
    /\ future' = idx
    /\ futState' = [c \in Svc |-> IF c >= idx /\ futState[c] = "none"
                                    THEN "pending" ELSE futState[c]]
    /\ probeCount' = [c \in Svc |-> IF c >= idx /\ futState[c] = "none"
                                      THEN probeCount[c] + 1 ELSE probeCount[c]]
    /\ pc' = "result"
    /\ UNCHANGED <<idx, child, shutting_down, eSet, stack, cascades, raisedWhy>>
    /\ UNCHANGED <<launchVars, probeResult, probeLog, failedPrinted, sigVars, intVars>>

\* Lines 144-145: the channel is opened and its ready-future is bound to `future`.
Create ==
    /\ pc = "create" /\ stack = <<>>
    /\ future' = idx
    /\ futState' = [futState EXCEPT ![idx] = "pending"]
    /\ probeCount' = [probeCount EXCEPT ![idx] = @ + 1]
    /\ pc' = "result"
    /\ UNCHANGED <<idx, child, shutting_down, eSet, stack, cascades, raisedWhy>>
    /\ UNCHANGED <<launchVars, probeResult, probeLog, failedPrinted, sigVars, intVars>>

\* gRPC's connectivity callback: the channel of the future being waited on
\* becomes READY.  It matures the future unless it was cancelled.
Mature ==
    /\ pc = "result"
    /\ futState[future] = "pending"
    /\ futState' = [futState EXCEPT ![future] = "matured"]
    /\ UNCHANGED <<pc, idx, child, shutting_down, eSet, stack, cascades, raisedWhy>>
    /\ UNCHANGED <<launchVars, future, probeCount, probeResult, probeLog, failedPrinted>>
    /\ UNCHANGED <<sigVars, intVars>>

\* Line 147 returns: the service is ready, the with block closes the channel.
ResultReady ==
    /\ pc = "result" /\ stack = <<>>
    /\ futState[future] = "matured"
    /\ probeResult' = [probeResult EXCEPT ![idx] = "Ready"]
    /\ probeLog' = Append(probeLog, idx)
    /\ idx' = idx + 1
    /\ pc' = "check"
    /\ UNCHANGED <<child, shutting_down, eSet, stack, cascades, raisedWhy>>
    /\ UNCHANGED <<launchVars, future, futState, probeCount, failedPrinted>>
    /\ UNCHANGED <<sigVars, intVars>>

\* Line 147 raises grpc.FutureTimeoutError after 20 s; line 148 catches it.
ResultTimeout ==
    /\ pc = "result" /\ stack = <<>>
    /\ futState[future] = "pending"
    /\ probeResult' = [probeResult EXCEPT ![idx] = "Timeout"]
    /\ probeLog' = Append(probeLog, idx)
    /\ pc' = "except"
    /\ UNCHANGED <<idx, child, shutting_down, eSet, stack, cascades, raisedWhy>>
    /\ UNCHANGED <<launchVars, future, futState, probeCount, failedPrinted>>
    /\ UNCHANGED <<sigVars, intVars>>

\* Line 147 raises grpc.FutureCancelledError: the handler cancelled the future
\* while the main flow waited on it.  Line 148 catches FutureTimeoutError
\* only, so the exception leaves the loop, the with block and deploy().
ResultCancelled ==
    /\ pc = "result" /\ stack = <<>>
    /\ futState[future] = "cancelled"
    /\ probeResult' = [probeResult EXCEPT ![idx] = "Cancelled"]
    /\ probeLog' = Append(probeLog, idx)
    /\ pc' = "raised"
    /\ raisedWhy' = "FutureCancelledError"
    /\ UNCHANGED <<idx, child, shutting_down, eSet, stack, cascades>>
    /\ UNCHANGED <<launchVars, future, futState, probeCount, failedPrinted>>
    /\ UNCHANGED <<sigVars, intVars>>

\* A new invocation of handler, entered at line 130.
NewFrame(trig) ==
    [hpc |-> "flag", i |-> 1, waited |-> 0, trig |-> trig]

\* Lines 149-150: the diagnostic is printed and handler(None, None) is called.
CallHandler ==
    /\ pc = "except" /\ stack = <<>>
    /\ failedPrinted' = failedPrinted + 1
    /\ stack' = <<NewFrame("timeout")>>
    /\ cascades' = cascades + 1
    /\ pc' = "in_handler"
    /\ UNCHANGED <<idx, child, shutting_down, eSet, raisedWhy>>
    /\ UNCHANGED <<launchVars, future, futState, probeCount, probeResult, probeLog>>
    /\ UNCHANGED <<sigVars, intVars>>

\* Mutant of WaitReleased: the final wait does not block.
WaitNotBlocking == TRUE

\* Line 153: what releases e.wait().
WaitReleased == eSet

\* Lines 153-154: e.wait() returns and deploy() returns.
Wait ==
    /\ pc = "wait" /\ stack = <<>>
    /\ WaitReleased
    /\ pc' = "returned"
    /\ UNCHANGED <<idx, child, shutting_down, eSet, stack, cascades, raisedWhy>>
    /\ UNCHANGED <<launchVars, probeVars, sigVars, intVars>>

\* ------------------------------------------------------------- the handler
Top == stack[Len(stack)]
SetTop(f) == [stack EXCEPT ![Len(stack)] = f]
Pop == SubSeq(stack, 1, Len(stack) - 1)

\* A handler invocation is in its relay-wait phase (lines 136-137).
InJoinPhase(f) == f.hpc = "join"

\* Delivery of SIGINT once line 140 has run: handler(_a, _b) is entered on top
\* of whatever the main thread is doing, a running handler included.
SigInt ==
    /\ installed /\ ~Ended
    /\ intCount < MaxInterrupts
    /\ intCount' = intCount + 1
    /\ intAt' = pc
    /\ stack' = Append(stack, NewFrame("sigint"))
    /\ cascades' = cascades + 1
    /\ UNCHANGED <<pc, idx, child, shutting_down, eSet, raisedWhy>>
    /\ UNCHANGED <<launchVars, probeVars, sigVars>>

\* Delivery of SIGINT before line 140: Python's default handler raises
\* KeyboardInterrupt in the main flow, which nothing in deploy() catches.
KeyboardInterrupt ==
    /\ ~installed /\ ~Ended
    /\ intCount < MaxInterrupts
    /\ intCount' = intCount + 1
    /\ intAt' = pc
    /\ pc' = "raised"
    /\ raisedWhy' = "KeyboardInterrupt"
    /\ UNCHANGED <<idx, child, shutting_down, eSet, stack, cascades>>
    /\ UNCHANGED <<launchVars, probeVars, sigVars>>

\* Lines 130-131.
HFlag ==
    /\ stack # <<>> /\ Top.hpc = "flag"
    /\ shutting_down' = TRUE
    /\ stack' = SetTop([Top EXCEPT !.hpc = "signal"])
    /\ UNCHANGED <<pc, idx, child, eSet, cascades, raisedWhy>>
    /\ UNCHANGED <<launchVars, probeVars, sigVars, intVars>>

\* Mutant of SignalCount: only the children probed so far are signalled.
SignalCountProbed == future

\* Line 132: how many entries of `processes` the loop visits.
SignalCount == Len(processes)

\* Mutant of SignalTargets: the loop stops at the first process that has
\* already exited, as it would if send_signal raised there.
SignalTargetsUntilDead ==
    {processes[n] : n \in {m \in 1..SignalCount :
                              \A k \in 1..m : child[processes[k]] # "exited"}}

\* Line 132: the children the loop visits.
SignalTargets == {processes[n] : n \in 1..SignalCount}

\* Popen.send_signal skips a process whose exit status was already collected.
KnownDead(c) == child[c] = "exited"

\* Lines 132-133: the loop `for p in processes: p.send_signal(signal.SIGINT)`.
\* The loop blocks nowhere and is taken as one step.
HSignal ==
    /\ stack # <<>> /\ Top.hpc = "signal"
    /\ termReq' = [c \in Svc |-> IF c \in SignalTargets THEN termReq[c] + 1 ELSE termReq[c]]
    /\ sigSent' = [c \in Svc |-> IF c \in SignalTargets /\ ~KnownDead(c)
                                   THEN sigSent[c] + 1 ELSE sigSent[c]]
    /\ stack' = SetTop([Top EXCEPT !.hpc = "cancel"])
    /\ UNCHANGED <<pc, idx, child, shutting_down, eSet, cascades, raisedWhy>>
    /\ UNCHANGED <<launchVars, probeVars, intVars>>

\* Mutant of HCancel: the handler goes on to its joins without cancelling.
HCancelSkipped ==
    /\ stack # <<>> /\ Top.hpc = "cancel"
    /\ stack' = SetTop([Top EXCEPT !.hpc = "join", !.i = 1])
    /\ UNCHANGED <<pc, idx, child, shutting_down, eSet, cascades, raisedWhy>>
    /\ UNCHANGED <<launchVars, probeVars, sigVars, intVars>>

\* Lines 134-135: future.cancel() cancels a future that has not matured.
HCancel ==
    /\ stack # <<>> /\ Top.hpc = "cancel"
    /\ futState' = IF future # 0 /\ futState[future] = "pending"
                     THEN [futState EXCEPT ![future] = "cancelled"]
                     ELSE futState
    /\ stack' = SetTop([Top EXCEPT !.hpc = "join", !.i = 1])
    /\ UNCHANGED <<pc, idx, child, shutting_down, eSet, cascades, raisedWhy>>
    /\ UNCHANGED <<launchVars, future, probeCount, probeResult, probeLog, failedPrinted>>
    /\ UNCHANGED <<sigVars, intVars>>

\* The listener thread of child c has returned from _listen.
ListenerDone(c) == child[c] = "exited"

Joining == stack # <<>> /\ Top.hpc = "join" /\ Top.i <= Len(process_listeners)

\* Line 137: join returns because the thread has finished.  Time is counted
\* in whole join timeouts: a join that returns early counts as no time.
HJoinDone ==
    /\ Joining /\ ListenerDone(process_listeners[Top.i])
    /\ stack' = SetTop([Top EXCEPT !.i = @ + 1])
    /\ UNCHANGED <<pc, idx, child, shutting_down, eSet, cascades, raisedWhy>>
    /\ UNCHANGED <<launchVars, probeVars, sigVars, intVars>>

\* Mutant of JoinWait: a join blocks for twice its timeout.
JoinWaitTwice == JoinTimeout + JoinTimeout

\* Time one join that times out takes (line 137).
JoinWait == JoinTimeout

\* Mutant of HJoinTimeout: a join on a running thread gives up without
\* blocking, as join(timeout=0) would.
HJoinGiveUpAtOnce ==
    /\ stack # <<>> /\ Top.hpc = "join" /\ Top.i <= Len(process_listeners)
    /\ child[process_listeners[Top.i]] # "exited"
    /\ stack' = SetTop([Top EXCEPT !.i = @ + 1])
    /\ UNCHANGED <<pc, idx, child, shutting_down, eSet, cascades, raisedWhy>>
    /\ UNCHANGED <<launchVars, probeVars, sigVars, intVars>>

\* Line 137: the thread is still running, join blocks for its whole timeout
\* and gives up.  `waited` is the time this invocation has been blocked in
\* its own joins.
HJoinTimeout ==
    /\ Joining /\ ~ListenerDone(process_listeners[Top.i])
    /\ stack' = SetTop([Top EXCEPT !.i = @ + 1, !.waited = @ + JoinWait])
    /\ UNCHANGED <<pc, idx, child, shutting_down, eSet, cascades, raisedWhy>>
    /\ UNCHANGED <<launchVars, probeVars, sigVars, intVars>>

\* Mutant of AtSet: e.set() may run as soon as the joins are reached.
AtSetEarly(f) == f.hpc = "join"

\* The handler has left the loop of line 136 and is about to run line 138.
AtSet(f) == f.hpc = "join" /\ f.i > Len(process_listeners)

\* Mutant of HSet: the handler clears the flag on its way out.
HSetClearsFlag ==
    /\ stack # <<>> /\ Top.hpc = "join" /\ Top.i > Len(process_listeners)
    /\ eSet' = TRUE
    /\ shutting_down' = FALSE
    /\ stack' = Pop
    /\ IF Top.trig = "timeout"
         THEN pc' = "check" /\ idx' = idx + 1
         ELSE pc' = pc /\ idx' = idx
    /\ UNCHANGED <<child, cascades, raisedWhy>>
    /\ UNCHANGED <<launchVars, probeVars, sigVars, intVars>>

\* Line 138: e.set(), then the handler returns to what it interrupted; the
\* call of line 150 returns into the for loop.
HSet ==
    /\ stack # <<>> /\ AtSet(Top)
    /\ eSet' = TRUE
    /\ stack' = Pop
    /\ IF Top.trig = "timeout"
         THEN pc' = "check" /\ idx' = idx + 1
         ELSE pc' = pc /\ idx' = idx
    /\ UNCHANGED <<child, shutting_down, cascades, raisedWhy>>
    /\ UNCHANGED <<launchVars, probeVars, sigVars, intVars>>

\* ------------------------------------------------- children and listeners
\* Mutant of ChildExit: the end of a listener thread starts the shutdown
\* handler, as a supervisor that watches its children would.
ChildExitStartsCascade(c) ==
    /\ ~Ended
    /\ child[c] = "running"
    /\ child' = [child EXCEPT ![c] = "exited"]
    /\ stack' = IF installed /\ stack = <<>>
                  THEN <<[hpc |-> "flag", i |-> 1, waited |-> 0, trig |-> "sigint"]>>
                  ELSE stack
    /\ cascades' = IF installed /\ stack = <<>> THEN cascades + 1 ELSE cascades
    /\ UNCHANGED <<pc, idx, shutting_down, eSet, raisedWhy>>
    /\ UNCHANGED <<launchVars, probeVars, sigVars, intVars>>

\* A child process exits, on SIGINT or on its own.  Its listener (lines
\* 30-33) then reads end-of-input, process.wait() collects the exit status
\* without blocking and the thread finishes: _listen has nothing left to wait
\* for, and the exit and the end of the thread are taken as one step.
ChildExit(c) ==
    /\ ~Ended
    /\ child[c] = "running"
    /\ child' = [child EXCEPT ![c] = "exited"]
    /\ UNCHANGED <<pc, idx, shutting_down, eSet, stack, cascades, raisedWhy>>
    /\ UNCHANGED <<launchVars, probeVars, sigVars, intVars>>

\* ------------------------------------------------------- specifications
MainStep ==
    \/ Spawn
    \/ Install
    \/ Check
    \/ Create
    \/ ResultReady
    \/ ResultTimeout
    \/ ResultCancelled
    \/ CallHandler
    \/ Wait

HandlerStep ==
    \/ HFlag
    \/ HSignal
    \/ HCancel
    \/ HJoinDone
    \/ HJoinTimeout
    \/ HSet

Next ==
    \/ Spawn
    \/ SpawnFail
    \/ Install
    \/ Check
    \/ Create
    \/ Mature
    \/ ResultReady
    \/ ResultTimeout
    \/ ResultCancelled
    \/ CallHandler
    \/ Wait
    \/ SigInt
    \/ KeyboardInterrupt
    \/ HFlag
    \/ HSignal
    \/ HCancel
    \/ HJoinDone
    \/ HJoinTimeout
    \/ HSet
    \/ \E c \in Svc : ChildExit(c)

Spec == Init /\ [][Next]_vars

\* The main thread keeps running: it is never descheduled for ever while one
\* of its steps (a handler step included) can be taken.
FairSpec == Spec /\ WF_vars(MainStep \/ HandlerStep)

TypeOK ==
    /\ pc \in {"spawn", "check", "create", "result", "except", "in_handler",
               "wait", "returned", "raised"}
    /\ idx \in 1..(NumServices + 1)
    /\ child \in [Svc -> {"none", "running", "exited"}]
    /\ future \in 0..NumServices
    /\ futState \in [Svc -> {"none", "pending", "matured", "cancelled"}]
    /\ Len(stack) <= MaxInterrupts + 1
    /\ \A c \in Svc : sigSent[c] <= termReq[c] /\ termReq[c] <= cascades

\* ------------------------------------------------------------------ claims
Spawned == {processes[n] : n \in 1..Len(processes)}
TimedOut == \E k \in Svc : probeResult[k] = "Timeout"
AllReady == \A c \in Svc : probeResult[c] = "Ready"
PlanOrder == [n \in 1..NumServices |-> n]

\* The handler call of line 150 has finished its signal loop.
TimeoutCascadeSent ==
    /\ TimedOut
    /\ pc # "except"
    /\ pc = "in_handler" => stack[1].hpc \in {"cancel", "join"}

\* C1: however often shutdown is triggered in a run, the supervisor sends the
\* interrupt signal to no child more than once (one cascade, never two).
C1_OneCascade == \A c \in Svc : sigSent[c] <= 1

\* C2: a run in which a readiness probe timed out ends with a non-zero exit
\* status.
C2_TimeoutExitsNonZero == (Ended /\ TimedOut) => ExitStatus # 0

\* C3: once the probe of service k has timed out and the handler has run its
\* signal loop, every spawned process has been sent a termination request:
\* the ready ones before k, k itself and the unprobed ones after k.  A
\* request reaches the child unless its exit status was already collected.
C3_TimeoutTerminatesAll ==
    TimeoutCascadeSent =>
        \A c \in Svc :
            /\ c \in Spawned
            /\ termReq[c] >= 1
            /\ child[c] # "exited" => sigSent[c] >= 1

\* C3 witness: service 1 ready, service 2 timed out, service 3 never probed,
\* all three signalled, run over.
C3_Witness ==
    /\ pc = "returned"
    /\ probeResult[1] = "Ready" /\ probeResult[2] = "Timeout" /\ probeCount[3] = 0
    /\ \A c \in Svc : sigSent[c] >= 1

\* C4: when the run has ended after an interrupt that arrived with children
\* already spawned, every spawned child has been sent a termination request.
C4_InterruptTerminatesAll ==
    (Ended /\ intCount >= 1 /\ Spawned # {}) =>
        \A c \in Spawned : termReq[c] >= 1

\* C5: a run in which every probe returned Ready and a single interrupt
\* arrived ends by returning with exit status 0, after probing each service
\* once in plan order, one handler invocation and one termination request
\* per process, with the Event set and without a launch diagnostic.
C5_CleanRun ==
    (Ended /\ AllReady /\ intCount = 1) =>
        /\ pc = "returned"
        /\ ExitStatus = 0
        /\ probeLog = PlanOrder
        /\ cascades = 1
        /\ \A c \in Svc : termReq[c] = 1 /\ probeCount[c] = 1
        /\ failedPrinted = 0
        /\ eSet

\* C5 witness: such a run, interrupted in the final wait, has returned.
C5_Witness ==
    /\ pc = "returned" /\ AllReady /\ intCount = 1 /\ intAt = "wait"
    /\ \A c \in Svc : sigSent[c] = 1

\* C6: a service is probed at most once; a service the loop has passed was
\* probed exactly once unless shutdown had been forced; after a probe timed
\* out no later service is probed.
C6_ProbeCounts ==
    /\ \A c \in Svc : probeCount[c] <= 1
    /\ \A c \in Svc : (installed /\ c < idx /\ ~shutting_down) => probeCount[c] = 1
    /\ \A k \in Svc : probeResult[k] = "Timeout" =>
           \A j \in Svc : j > k => probeCount[j] = 0

\* C6 witness: the loop is over, service 1 was probed and timed out, the
\* services after it were never probed.
C6_Witness ==
    /\ pc = "wait"
    /\ probeResult[1] = "Timeout"
    /\ \A j \in Svc : j > 1 => probeCount[j] = 0

\* C7: a probe that an interrupt cancelled in flight ends as Cancelled without
\* a launch diagnostic, without a second trigger, and without the main flow
\* aborting on an unhandled error.
C7_CancelNoAbort ==
    \A c \in Svc : probeResult[c] = "Cancelled" =>
        /\ failedPrinted = 0
        /\ cascades = intCount
        /\ pc # "raised"

\* C8: when spawning a command fails, no probe is ever attempted and every
\* process spawned before it has been sent a termination request when the
\* run ends.
C8_SpawnFailureTerminates ==
    raisedWhy = "SpawnFailure" =>
        /\ \A c \in Svc : probeCount[c] = 0
        /\ \A c \in Spawned : termReq[c] >= 1

\* C9: the supervisor never stays blocked once shutdown was triggered: the
\* run then ends; after a probe timed out it goes on to return, with no
\* interrupt needed; once a handler invocation has begun while the main flow
\* is in the final wait it goes on to return; and without any trigger the
\* Event stays unset and deploy() never returns.
C9_WaitReleased ==
    /\ (cascades >= 1) ~> Ended
    /\ TimedOut ~> (pc = "returned")
    /\ (pc = "wait" /\ cascades >= 1) ~> (pc = "returned")
    /\ [](pc = "returned" => (cascades >= 1 /\ eSet))
    /\ []((pc = "wait" /\ cascades = 0) => ~eSet)

\* C9 witness: a run that returned after a probe timed out, with no interrupt.
C9_Witness == pc = "returned" /\ TimedOut /\ intCount = 0

\* C10 as stated: a handler invocation reaches e.set() after at most one
\* grace period (5 time units) of waiting in its joins, however many children
\* hang.
C10_DoneWithinOneGrace ==
    \A n \in 1..Len(stack) : AtSet(stack[n]) => stack[n].waited <= JoinTimeout

\* C10 amended: the joins are sequential and each is bounded by the grace
\* period, so a handler invocation reaches e.set() after at most 5 time units
\* of waiting per relay it has joined.
C10_DoneWithinGracePerRelay ==
    \A n \in 1..Len(stack) :
        InJoinPhase(stack[n]) => stack[n].waited <= JoinTimeout * (stack[n].i - 1)

\* C10 witness: every child hangs, and the handler is about to run e.set()
\* after one full grace period per relay.
C10_Witness ==
    /\ stack # <<>> /\ AtSet(Top)
    /\ Top.waited = JoinTimeout * NumServices
    /\ \A c \in Svc : child[c] = "running" /\ sigSent[c] >= 1

\* The relays a handler invocation has joined (line 136-137) that have not
\* finished.
UnfinishedJoined(f) ==
    {k \in 1..(f.i - 1) : child[process_listeners[k]] = "running"}

\* C11: a relay that a handler invocation has passed without its having
\* finished cost that invocation one whole grace period of waiting: a child
\* that exits within the grace period has its relay finished before the
\* invocation reaches e.set(), and an invocation that never waited a whole
\* grace period reaches e.set() with every relay finished.
C11_RelayFinishedBeforeDone ==
    \A n \in 1..Len(stack) :
        InJoinPhase(stack[n]) =>
            /\ Cardinality(UnfinishedJoined(stack[n])) * JoinTimeout <= stack[n].waited
            /\ (AtSet(stack[n]) /\ stack[n].waited = 0) =>
                   \A c \in Svc : child[c] = "exited"

\* C11 witness: every child was signalled while running, exited in time, and
\* the handler is about to run e.set() without a join having timed out.
C11_Witness ==
    /\ stack # <<>> /\ AtSet(Top) /\ Top.waited = 0
    /\ \A c \in Svc : sigSent[c] >= 1 /\ child[c] = "exited"

\* Futures created (line 145) and neither matured nor cancelled.
InFlight == {c \in Svc : futState[c] = "pending"}

\* A step that creates a ready-future (line 145).
StartsProbe == \E c \in Svc : probeCount'[c] > probeCount[c]

\* C12: probes are issued in plan order, one at a time: at most one future is
\* unresolved, the services probed so far are a prefix of the plan, a probe
\* has started only when every earlier probe has resolved, probes resolve in
\* plan order, and a probe starts only when no other is unresolved.
C12_ProbesSequential ==
    /\ [](Cardinality(InFlight) <= 1)
    /\ [](\A j \in Svc : probeCount[j] >= 1 =>
             \A i \in Svc : i < j => (probeCount[i] >= 1 /\ probeResult[i] # "none"))
    /\ [](\A a, b \in 1..Len(probeLog) : a < b => probeLog[a] < probeLog[b])
    /\ [][StartsProbe => InFlight = {}]_vars

\* C12 witness: the probe of the last service is in flight and every earlier
\* probe has resolved as Ready.
C12_Witness ==
    /\ pc = "result" /\ future = NumServices /\ InFlight = {NumServices}
    /\ \A i \in Svc : i < NumServices => probeResult[i] = "Ready"

\* The launch loop (lines 118-123) has run to its end: line 140 is behind.
LaunchDone == installed

\* C13: when every command has spawned, the N handles and the N relay tasks
\* of the plan exist before any probe starts, and in every later state of the
\* run both lists are still exactly those N entries.
C13_HandlesFixed ==
    /\ []((\E c \in Svc : probeCount[c] >= 1) => LaunchDone)
    /\ [](LaunchDone =>
             /\ processes = PlanOrder
             /\ process_listeners = PlanOrder
             /\ \A c \in Svc : child[c] # "none")
    /\ [][LaunchDone => (processes' = processes
                          /\ process_listeners' = process_listeners)]_vars

\* C13 witness: a run that probed, shut down and returned, with the N handles
\* and N relay tasks still in place.
C13_Witness ==
    /\ pc = "returned" /\ probeCount[1] = 1 /\ cascades >= 1
    /\ Len(processes) = NumServices /\ Len(process_listeners) = NumServices

\* C14: no step of the main flow, of a handler invocation, of gRPC or of a
\* child takes shutting_down[0] from True back to False.
C14_FlagNeverReset == [][shutting_down => shutting_down']_vars

\* C14 witness: the flag was set by a handler and the main flow has since
\* run on to the end of deploy().
C14_Witness == shutting_down /\ pc = "returned" /\ stack = <<>>

\* The future bound to `future` (line 145) is still neither matured nor
\* cancelled.
ProbePending == future # 0 /\ futState[future] = "pending"

\* The handler invocation f has run its signal loop (lines 132-133).
RequestsSent(f) == f.hpc \in {"cancel", "join"}

\* C15 as stated: the in-flight probe is cancelled first, the termination
\* requests come after it, the joins after both: an invocation that has sent
\* its requests has no pending probe behind it, and one that is in its joins
\* has sent its requests.
C15_CancelBeforeRequests ==
    \A n \in 1..Len(stack) :
        /\ RequestsSent(stack[n]) => ~ProbePending
        /\ InJoinPhase(stack[n]) => \A c \in Svc : termReq[c] >= 1

\* C15 amended: the termination requests are sent first, the probe is
\* cancelled after them, and the joins begin only after both: an invocation
\* that is past its signal loop has requested every process to terminate, one
\* that is in its joins has no pending probe behind it, and before its joins
\* an invocation has waited on no relay.
C15_RequestsThenCancelThenJoins ==
    \A n \in 1..Len(stack) :
        /\ RequestsSent(stack[n]) => \A c \in Svc : termReq[c] >= 1
        /\ InJoinPhase(stack[n]) => ~ProbePending
        /\ ~InJoinPhase(stack[n]) => (stack[n].i = 1 /\ stack[n].waited = 0)

\* C15 witness: an interrupt arrived while a probe was in flight; the handler
\* has sent its requests to every child and the probe is not yet cancelled.
C15_Witness ==
    /\ stack # <<>> /\ Top.hpc = "cancel" /\ Top.trig = "sigint"
    /\ pc = "result" /\ ProbePending
    /\ \A c \in Svc : sigSent[c] >= 1

\* A step in which a handler invocation runs e.set() and returns (line 138).
SetsEvent == Len(stack') < Len(stack)

\* C16: the Event is set only by a handler invocation that has sent a
\* termination request to every spawned process and has issued its join on
\* every relay; while the Event is set the flag is set and every process has
\* been requested to terminate; and deploy() leaves its final wait only with
\* the Event and the flag set.
C16_DoneOnlyAfterCascade ==
    /\ [][(eSet' /\ ~eSet) => SetsEvent]_vars
    /\ [][SetsEvent =>
            /\ Top.hpc = "join"
            /\ Top.i = Len(process_listeners) + 1
            /\ \A c \in Spawned : termReq[c] >= 1
            /\ eSet']_vars
    /\ [](eSet => (shutting_down /\ \A c \in Spawned : termReq[c] >= 1))
    /\ [](pc = "returned" => (eSet /\ shutting_down))

\* C16 witness: deploy() has returned after a single interrupt in the final
\* wait, whose handler signalled every child and gave up on every relay.
C16_Witness ==
    /\ pc = "returned" /\ eSet /\ intAt = "wait" /\ ~TimedOut
    /\ \A c \in Svc : termReq[c] = 1 /\ child[c] = "running"

\* One of the two triggers of shutdown has occurred: a SIGINT was delivered
\* or future.result timed out (line 148).
Triggered == intCount >= 1 \/ TimedOut

\* A step in which a child exits and its relay finishes (lines 30-33).
ChildExits == \E c \in Svc : child[c] = "running" /\ child'[c] = "exited"

\* C17: without an interrupt and without a probe timeout the supervisor stays
\* Running whatever its children and their relays do: the flag is unset, no
\* handler invocation has begun, no termination request has been made and
\* the Event is unset; and the step in which a child exits and its relay
\* finishes sets no flag, begins no handler invocation and sends no request.
C17_OnlyInterruptOrTimeout ==
    /\ [](~Triggered =>
             /\ ~shutting_down
             /\ cascades = 0 /\ stack = <<>>
             /\ \A c \in Svc : termReq[c] = 0 /\ sigSent[c] = 0
             /\ ~eSet)
    /\ [][ChildExits =>
            /\ shutting_down' = shutting_down
            /\ cascades' = cascades /\ stack' = stack
            /\ termReq' = termReq /\ sigSent' = sigSent]_vars

\* C17 witness: every service became ready, then one child exited on its own
\* and its relay finished; the supervisor is in its final wait, still
\* Running, and the other children were left alone.
C17_Witness ==
    /\ pc = "wait" /\ AllReady /\ ~Triggered
    /\ child[1] = "exited"
    /\ \A c \in Svc : c # 1 => child[c] = "running"
    /\ ~shutting_down /\ \A c \in Svc : termReq[c] = 0

\* Every spawned process has been requested to terminate, and the request
\* has reached each one that is still running.
AllRequested ==
    \A c \in Spawned : termReq[c] >= 1 /\ (child[c] = "running" => sigSent[c] >= 1)

\* C18: a process that had exited before the signal loop reached it is
\* passed over and nothing else: a request is withheld only from an exited
\* process, every invocation that is past its signal loop has reached every
\* process still running, a handler invocation can always take its next
\* step, and the Event is set only with every process requested.
C18_ExitedSkipped ==
    /\ [](\A c \in Svc : sigSent[c] < termReq[c] => child[c] = "exited")
    /\ [](\A n \in 1..Len(stack) : RequestsSent(stack[n]) => AllRequested)
    /\ [](stack # <<>> => ENABLED HandlerStep)
    /\ [](eSet => AllRequested)

\* C18 witness: child 1 had exited before the only cascade and was passed
\* over, the other children were signalled, and deploy() has returned.
C18_Witness ==
    /\ pc = "returned" /\ cascades = 1
    /\ termReq[1] = 1 /\ sigSent[1] = 0
    /\ \A c \in Svc : c # 1 => sigSent[c] = 1

\* C19: once a handler invocation has set the flag and run through, no probe
\* is pending: none was begun after it and none is left uncancelled.
C19_NoProbeAfterShutdown ==
    (shutting_down /\ stack = <<>>) => ~ProbePending

====
